---- MODULE Spec2Model ----
(***************************************************************************)
(* A model of blitzcrop (src/blitzcrop.py): the Point / Rectangle          *)
(* geometry, the letterbox fit rescaled_image_size, crop_rectangle and the *)
(* CropCanvas event handlers.                                              *)
(*                                                                         *)
(* Numbers are Python numbers.  A Python int is [k |-> "int"], a Python    *)
(* float whose value is fixed by IEEE-754 (the results of + - * / on       *)
(* binary64) is [k |-> "float"] and is computed bit for bit, with          *)
(* round-to-nearest-even at 53 bits.  The results of the libm calls        *)
(* (x ** 0.5, atan), whose last bit is not fixed by the language, are      *)
(* kept exact: [k |-> "real"] is the real number a + b * sqrt(t), and      *)
(* every operation one such number takes part in is exact as well.         *)
(***************************************************************************)
EXTENDS Integers, Sequences, FiniteSets, TLC

(***************************************************************************)
(* Natural numbers of any size: little-endian sequences of limbs in        *)
(* 0 .. Base-1 without leading zero limbs (TLC's own integers are 32 bit,  *)
(* a binary64 significand has 53).                                         *)
(***************************************************************************)
LimbBits == 15

Base == 2 ^ LimbBits

Min(a, b) == IF a <= b THEN a ELSE b

Max(a, b) == IF a >= b THEN a ELSE b

Rest(x) == IF x = <<>> THEN <<>> ELSE Tail(x)

First(x) == IF x = <<>> THEN 0 ELSE Head(x)

RECURSIVE BNorm(_)
BNorm(x) ==
    IF x = <<>> THEN <<>>
    ELSE IF x[Len(x)] = 0 THEN BNorm(SubSeq(x, 1, Len(x) - 1)) ELSE x

RECURSIVE BFromInt(_)
BFromInt(n) == IF n = 0 THEN <<>> ELSE <<n % Base>> \o BFromInt(n \div Base)

RECURSIVE BToInt(_)
BToInt(x) == IF x = <<>> THEN 0 ELSE Head(x) + Base * BToInt(Tail(x))

RECURSIVE BAddC(_, _, _)
BAddC(x, y, c) ==
    IF x = <<>> /\ y = <<>> THEN (IF c = 0 THEN <<>> ELSE <<c>>)
    ELSE <<(First(x) + First(y) + c) % Base>>
         \o BAddC(Rest(x), Rest(y), (First(x) + First(y) + c) \div Base)

BAdd(x, y) == BAddC(x, y, 0)

RECURSIVE BSubB(_, _, _)
BSubB(x, y, b) ==
    IF x = <<>> THEN <<>>
    ELSE <<(Head(x) - First(y) - b + Base) % Base>>
         \o BSubB(Tail(x), Rest(y), IF Head(x) - First(y) - b < 0 THEN 1 ELSE 0)

\* x - y for x >= y
BSub(x, y) == BNorm(BSubB(x, y, 0))

RECURSIVE BCmpFrom(_, _, _)
BCmpFrom(x, y, i) ==
    IF i = 0 THEN 0
    ELSE IF x[i] # y[i] THEN (IF x[i] < y[i] THEN -1 ELSE 1)
    ELSE BCmpFrom(x, y, i - 1)

\* -1, 0 or 1 as x < y, x = y or x > y
BCmp(x, y) ==
    IF Len(x) # Len(y) THEN (IF Len(x) < Len(y) THEN -1 ELSE 1)
    ELSE BCmpFrom(x, y, Len(x))

RECURSIVE BMulSmallC(_, _, _)
BMulSmallC(x, n, c) ==
    IF x = <<>> THEN (IF c = 0 THEN <<>> ELSE <<c>>)
    ELSE <<(Head(x) * n + c) % Base>>
         \o BMulSmallC(Tail(x), n, (Head(x) * n + c) \div Base)

\* x * n for 0 <= n < Base
BMulSmall(x, n) == IF n = 0 THEN <<>> ELSE BMulSmallC(x, n, 0)

RECURSIVE BMul(_, _)
BMul(x, y) ==
    IF x = <<>> \/ y = <<>> THEN <<>>
    ELSE BAdd(BMulSmall(x, Head(y)), BNorm(<<0>> \o BMul(x, Tail(y))))

Zeros(n) == [i \in 1 .. n |-> 0]

\* x * 2^k
BShl(x, k) ==
    IF x = <<>> THEN <<>>
    ELSE Zeros(k \div LimbBits) \o BMulSmall(x, 2 ^ (k % LimbBits))

RECURSIVE BDivSmallR(_, _, _, _)
BDivSmallR(x, n, i, r) ==
    IF i = 0 THEN <<>>
    ELSE BDivSmallR(x, n, i - 1, (r * Base + x[i]) % n)
         \o <<(r * Base + x[i]) \div n>>

\* floor(x / n) for 0 < n < Base
BDivSmall(x, n) == BNorm(BDivSmallR(x, n, Len(x), 0))

\* floor(x / 2^k)
BShr(x, k) ==
    IF k \div LimbBits >= Len(x) THEN <<>>
    ELSE BDivSmall(SubSeq(x, k \div LimbBits + 1, Len(x)), 2 ^ (k % LimbBits))

RECURSIVE SmallBitLen(_)
SmallBitLen(n) == IF n = 0 THEN 0 ELSE 1 + SmallBitLen(n \div 2)

BBitLen(x) ==
    IF x = <<>> THEN 0 ELSE LimbBits * (Len(x) - 1) + SmallBitLen(x[Len(x)])

\* bit i (bit 0 the lowest) of x
BBit(x, i) == (x[i \div LimbBits + 1] \div 2 ^ (i % LimbBits)) % 2

BIsOdd(x) == x # <<>> /\ x[1] % 2 = 1

RECURSIVE SmallTrailingZeros(_)
SmallTrailingZeros(n) == IF n % 2 = 1 THEN 0 ELSE 1 + SmallTrailingZeros(n \div 2)

RECURSIVE BTrailingZeros(_)
\* the number of trailing zero bits of x > 0
BTrailingZeros(x) ==
    IF Head(x) = 0 THEN LimbBits + BTrailingZeros(Tail(x))
    ELSE SmallTrailingZeros(Head(x))

RECURSIVE QDigit(_, _, _, _)
\* the largest q in lo .. hi with q * d <= r, by bisection
QDigit(r, d, lo, hi) ==
    IF lo = hi THEN lo
    ELSE IF BCmp(BMulSmall(d, (lo + hi + 1) \div 2), r) <= 0
         THEN QDigit(r, d, (lo + hi + 1) \div 2, hi)
         ELSE QDigit(r, d, lo, (lo + hi + 1) \div 2 - 1)

PutDigit(qr, q) == <<qr[1] \o <<q>>, qr[2]>>

Limb(x, i) == IF i <= Len(x) THEN x[i] ELSE 0

\* Knuth's estimate of floor(r / d) for r < d * Base and a divisor whose top limb is
\* at least Base / 2: the top two limbs of r by the top limb of d. The quotient is
\* the estimate or up to 2 below it.
QEstimate(r, d) ==
    Min(Base - 1, (Limb(r, Len(d) + 1) * Base + Limb(r, Len(d))) \div d[Len(d)])

RECURSIVE BDivModR(_, _, _, _)
BDivLimb(n, d, i, cur, q) ==
    PutDigit(BDivModR(n, d, i - 1, BSub(cur, BMulSmall(d, q))), q)

\* long division, a limb at a time: limbs i .. 1 of n are still to bring down to
\* the remainder r
BDivModR(n, d, i, r) ==
    IF i = 0 THEN <<(<<>>), r>>
    ELSE BDivLimb(n, d, i, BNorm(<<n[i]>> \o r),
                  QDigit(BNorm(<<n[i]>> \o r), d,
                         Max(0, QEstimate(BNorm(<<n[i]>> \o r), d) - 2),
                         QEstimate(BNorm(<<n[i]>> \o r), d)))

\* the shift that brings the top limb of d to Base / 2 or more
NormShift(d) == LimbBits - SmallBitLen(d[Len(d)])

BDivModN(n, d, sh) ==
    <<BNorm(BDivModR(n, d, Len(n), <<>>)[1]), BShr(BDivModR(n, d, Len(n), <<>>)[2], sh)>>

\* <<floor(n / d), n mod d>> for d > 0
BDivMod(n, d) == BDivModN(BShl(n, NormShift(d)), BShl(d, NormShift(d)), NormShift(d))

(***************************************************************************)
(* binary64: s * m * 2^e with s in {1, -1}, m a natural number below 2^53  *)
(* and odd (or zero, with s = 1 and e = 0), so that equal values are equal *)
(* records.  The exponent is not bounded: no value of this model comes     *)
(* near the subnormal or the overflow range.  Zero carries no sign.        *)
(***************************************************************************)
Precision == 53

FloatZero == [k |-> "float", s |-> 1, m |-> <<>>, e |-> 0]

Canon(s, n, e) ==
    IF n = <<>> THEN FloatZero
    ELSE [k |-> "float", s |-> s, m |-> BShr(n, BTrailingZeros(n)),
          e |-> e + BTrailingZeros(n)]

RoundUp(n, q, k) ==
    LET c == BCmp(BSub(n, BShl(q, k)), BShl(<<1>>, k - 1))
    IN  c > 0 \/ (c = 0 /\ BIsOdd(q))

\* the binary64 nearest to s * n * 2^e, ties to even
RoundToDouble(s, n, e) ==
    IF BBitLen(n) <= Precision THEN Canon(s, n, e)
    ELSE LET k == BBitLen(n) - Precision
             q == BShr(n, k)
         IN  Canon(s, IF RoundUp(n, q, k) THEN BAdd(q, <<1>>) ELSE q, e + k)

Abs(n) == IF n < 0 THEN -n ELSE n

Sign(n) == IF n < 0 THEN -1 ELSE 1

IntToFloat(n) == RoundToDouble(Sign(n), BFromInt(Abs(n)), 0)

FMul(a, b) == RoundToDouble(a.s * b.s, BMul(a.m, b.m), a.e + b.e)

\* a + b, exactly, as <<sign, natural number, exponent>>
FSum(a, b) ==
    LET e0 == Min(a.e, b.e)
        x == BShl(a.m, a.e - e0)
        y == BShl(b.m, b.e - e0)
    IN  IF a.s = b.s THEN <<a.s, BAdd(x, y), e0>>
        ELSE IF BCmp(x, y) >= 0 THEN <<a.s, BSub(x, y), e0>>
        ELSE <<b.s, BSub(y, x), e0>>

FAdd(a, b) == RoundToDouble(FSum(a, b)[1], FSum(a, b)[2], FSum(a, b)[3])

FNeg(a) == IF a.m = <<>> THEN a ELSE [a EXCEPT !.s = -a.s]

FSub(a, b) == FAdd(a, FNeg(b))

\* -1, 0 or 1 as a < b, a = b or a > b
FCmp(a, b) ==
    LET d == FSum(a, FNeg(b)) IN IF d[2] = <<>> THEN 0 ELSE d[1]

\* a / b for b # 0: the quotient to Precision + 2 bits and a sticky bit, rounded
FDiv(a, b) ==
    LET k  == Max(0, Precision + 2 + BBitLen(b.m) - BBitLen(a.m))
        qr == BDivMod(BShl(a.m, k), b.m)
    IN  RoundToDouble(a.s * b.s, BAddC(qr[1], qr[1], IF qr[2] = <<>> THEN 0 ELSE 1),
                      a.e - b.e - k - 1)

\* int(a): the integer part, towards zero
FTrunc(a) ==
    IF a.e >= 0 THEN a.s * BToInt(BShl(a.m, a.e))
    ELSE a.s * BToInt(BShr(a.m, -a.e))

(***************************************************************************)
(* Rational numbers <<n, d>> in lowest terms, d > 0.                       *)
(***************************************************************************)
RECURSIVE GCD(_, _)
GCD(a, b) == IF b = 0 THEN a ELSE GCD(b, a % b)

Rat(n, d) ==
    LET g == GCD(Abs(n), Abs(d))
    IN  <<(Sign(d) * n) \div g, Abs(d) \div g>>

RAdd(p, q) == Rat(p[1] * q[2] + q[1] * p[2], p[2] * q[2])

RNeg(p) == <<-p[1], p[2]>>

RSub(p, q) == RAdd(p, RNeg(q))

RMul(p, q) == Rat(p[1] * q[1], p[2] * q[2])

\* p / q for q # 0
RDiv(p, q) == Rat(p[1] * q[2], p[2] * q[1])

RSgn(p) == IF p[1] > 0 THEN 1 ELSE IF p[1] < 0 THEN -1 ELSE 0

(***************************************************************************)
(* Exact results: the real number a + b * sqrt(t), with a and b rational   *)
(* and t a squarefree integer (t = 1 and b = 0 for a rational number).     *)
(* All the numbers of one computation that have a root carry the same t.   *)
(***************************************************************************)
RECURSIVE SquarePart(_, _)
\* the largest s <= from with s * s dividing n
SquarePart(n, from) ==
    IF from <= 1 THEN 1
    ELSE IF n % (from * from) = 0 THEN from ELSE SquarePart(n, from - 1)

RECURSIVE ISqrt(_, _)
\* the largest s <= from with s * s <= n
ISqrt(n, from) == IF from * from <= n THEN from ELSE ISqrt(n, from - 1)

\* a + b * sqrt(n) for an integer n >= 0, in the form above
MkReal(a, b, n) ==
    LET s == IF n = 0 THEN 0 ELSE SquarePart(n, ISqrt(n, Min(n, 1024)))
        t == IF n = 0 THEN 1 ELSE n \div (s * s)
    IN  IF b[1] = 0 \/ t = 1
        THEN [k |-> "real", a |-> RAdd(a, RMul(b, <<s, 1>>)), b |-> <<0, 1>>, t |-> 1]
        ELSE [k |-> "real", a |-> a, b |-> RMul(b, <<s, 1>>), t |-> t]

RealOfRat(q) == MkReal(q, <<0, 1>>, 1)

\* the root that x and y share
RootOf(x, y) == IF x.t = 1 THEN y.t ELSE x.t

RealAdd(x, y) == MkReal(RAdd(x.a, y.a), RAdd(x.b, y.b), RootOf(x, y))

RealNeg(x) == [x EXCEPT !.a = RNeg(x.a), !.b = RNeg(x.b)]

RealSub(x, y) == RealAdd(x, RealNeg(y))

RealMul(x, y) ==
    MkReal(RAdd(RMul(x.a, y.a), RMul(RMul(x.b, y.b), <<RootOf(x, y), 1>>)),
           RAdd(RMul(x.a, y.b), RMul(x.b, y.a)), RootOf(x, y))

\* -1, 0 or 1: the sign of a + b * sqrt(t)
RealSgn(x) ==
    IF x.b[1] = 0 THEN RSgn(x.a)
    ELSE IF x.a[1] = 0 THEN RSgn(x.b)
    ELSE IF RSgn(x.a) = RSgn(x.b) THEN RSgn(x.a)
    ELSE IF RSgn(RSub(RMul(x.a, x.a), RMul(RMul(x.b, x.b), <<x.t, 1>>))) > 0
         THEN RSgn(x.a) ELSE RSgn(x.b)

\* x / y for y # 0: x * (c - d sqrt t) / (c^2 - d^2 t); the quotient of two roots
\* b sqrt(t) / (d sqrt(u)) of different t and u is (b / (d u)) sqrt(t u)
RealDiv(x, y) ==
    LET norm == RSub(RMul(y.a, y.a), RMul(RMul(y.b, y.b), <<y.t, 1>>))
        conj == [y EXCEPT !.b = RNeg(y.b)]
        inv  == [conj EXCEPT !.a = RDiv(conj.a, norm), !.b = RDiv(conj.b, norm)]
    IN  IF x.t # 1 /\ y.t # 1 /\ x.t # y.t
        THEN MkReal(<<0, 1>>, RDiv(x.b, RMul(y.b, <<y.t, 1>>)), x.t * y.t)
        ELSE RealMul(x, inv)

\* sqrt(q) for a rational q >= 0: sqrt(n / d) = sqrt(n * d) / d
RealSqrt(q) == MkReal(<<0, 1>>, <<1, q[2]>>, q[1] * q[2])

(***************************************************************************)
(* Python's arithmetic on int, float and the exact results.                *)
(***************************************************************************)
PyInt(n) == [k |-> "int", v |-> n]

ZeroDivisionError == [k |-> "ZeroDivisionError"]

ToFloat(x) == IF x.k = "int" THEN IntToFloat(x.v) ELSE x

\* the value of an int, or of a float with a small significand, or an exact result
ToReal(x) ==
    IF x.k = "int" THEN RealOfRat(<<x.v, 1>>)
    ELSE IF x.k = "float"
    THEN RealOfRat(IF x.e >= 0 THEN <<x.s * BToInt(x.m) * 2 ^ x.e, 1>>
                   ELSE Rat(x.s * BToInt(x.m), 2 ^ (-x.e)))
    ELSE x

Exact(x, y) == x.k = "real" \/ y.k = "real"

Ints(x, y) == x.k = "int" /\ y.k = "int"

NumAdd(x, y) ==
    IF Ints(x, y) THEN PyInt(x.v + y.v)
    ELSE IF Exact(x, y) THEN RealAdd(ToReal(x), ToReal(y))
    ELSE FAdd(ToFloat(x), ToFloat(y))

NumSub(x, y) ==
    IF Ints(x, y) THEN PyInt(x.v - y.v)
    ELSE IF Exact(x, y) THEN RealSub(ToReal(x), ToReal(y))
    ELSE FSub(ToFloat(x), ToFloat(y))

NumMul(x, y) ==
    IF Ints(x, y) THEN PyInt(x.v * y.v)
    ELSE IF Exact(x, y) THEN RealMul(ToReal(x), ToReal(y))
    ELSE FMul(ToFloat(x), ToFloat(y))

\* -1, 0 or 1: the sign of x
NumSgn(x) ==
    IF x.k = "int" THEN (IF x.v > 0 THEN 1 ELSE IF x.v < 0 THEN -1 ELSE 0)
    ELSE IF x.k = "float" THEN (IF x.m = <<>> THEN 0 ELSE x.s)
    ELSE RealSgn(x)

\* -1, 0 or 1 as x < y, x == y or x > y (Python compares the values exactly)
NumCmp(x, y) ==
    IF Ints(x, y) THEN NumSgn(PyInt(x.v - y.v))
    ELSE IF Exact(x, y) THEN RealSgn(RealSub(ToReal(x), ToReal(y)))
    ELSE FCmp(ToFloat(x), ToFloat(y))

NumEq(x, y) == NumCmp(x, y) = 0

\* x / y, Python's true division: a float also for two ints
NumDiv(x, y) ==
    IF NumSgn(y) = 0 THEN ZeroDivisionError
    ELSE IF Exact(x, y) THEN RealDiv(ToReal(x), ToReal(y))
    ELSE FDiv(ToFloat(x), ToFloat(y))

\* int(x)
NumInt(x) == IF x.k = "int" THEN x ELSE PyInt(FTrunc(x))

\* x ** 2: exact for an int, the product rounded for a float
NumSquare(x) == NumMul(x, x)

\* x ** 0.5 for a rational x >= 0: libm's pow, kept exact as the root of x's value
NumSqrt(x) == RealSqrt(ToReal(x).a)

Half == FDiv(IntToFloat(1), IntToFloat(2))

(***************************************************************************)
(* Angles.  atan(x) is the angle in (-pi/2, pi/2) whose tangent is x; the  *)
(* record is atan(of) + pi * turns, or of * pi/2 + pi * turns for the two  *)
(* vertical directions.  A quotient that only feeds atan is kept exact,    *)
(* like atan's own result.                                                 *)
(***************************************************************************)
atan(x) == [k |-> "angle", form |-> "atan", of |-> x, turns |-> 0]

\* copysign(0.5 * pi, y)
copysign_half_pi(y) ==
    [k |-> "angle", form |-> "pi/2", of |-> IF NumSgn(y) < 0 THEN -1 ELSE 1, turns |-> 0]

AngleNeg(a) ==
    IF a.form = "atan" THEN [a EXCEPT !.of = RealNeg(a.of), !.turns = -a.turns]
    ELSE [a EXCEPT !.of = -a.of, !.turns = -a.turns]

ExactDiv(x, y) == RealDiv(ToReal(x), ToReal(y))

(***************************************************************************)
(* def rescaled_image_size, for positive sizes                             *)
(***************************************************************************)
FitToCanvas(canvas_width, canvas_height, ar) ==
    IF NumCmp(ar, NumDiv(canvas_width, canvas_height)) >= 0
    THEN <<canvas_width, NumDiv(canvas_width, ar)>>
    ELSE <<NumMul(canvas_height, ar), canvas_height>>

rescaled_image_size(canvas_width, canvas_height, image_width, image_height) ==
    LET Truncated(fit) == <<NumInt(fit[1]), NumInt(fit[2])>>
    IN  Truncated(FitToCanvas(canvas_width, canvas_height,
                              NumDiv(image_width, image_height)))

(***************************************************************************)
(* class Point, ImagePoint, CanvasPoint.  An exception is the value that   *)
(* names it.                                                               *)
(***************************************************************************)
None == [type |-> "NoneType"]

AssertionError == [type |-> "AssertionError"]

AttributeError == [type |-> "AttributeError"]

Raised(v) ==
    \/ "type" \in DOMAIN v
       /\ v.type \in {"AssertionError", "AttributeError", "ZeroDivisionError"}
    \/ "k" \in DOMAIN v /\ v.k = "ZeroDivisionError"

Point(type, x, y) == [type |-> type, x |-> x, y |-> y]

ImagePoint(x, y) == Point("ImagePoint", x, y)

CanvasPoint(x, y) == Point("CanvasPoint", x, y)

\* the assertion left out
assert_same_type_off(self, other) == TRUE

\* whether the assertion passes
assert_same_type(self, other) == self.type = other.type

__eq__(self, other) ==
    self.type = other.type /\ NumEq(self.x, other.x) /\ NumEq(self.y, other.y)

__add__(self, other) ==
    IF ~assert_same_type(self, other) THEN AssertionError
    ELSE Point(self.type, NumAdd(self.x, other.x), NumAdd(self.y, other.y))

__sub__(self, other) ==
    IF ~assert_same_type(self, other) THEN AssertionError
    ELSE Point(self.type, NumSub(self.x, other.x), NumSub(self.y, other.y))

__mul__(self, factor) ==
    Point(self.type, NumMul(self.x, factor), NumMul(self.y, factor))

__rmul__(self, factor) == __mul__(self, factor)

__neg__(self) == __rmul__(self, PyInt(-1))

__abs__(self) == NumSqrt(NumAdd(NumSquare(self.x), NumSquare(self.y)))

middle_between(self, other) == __add__(self, __rmul__(__sub__(other, self), Half))

\* the difference taken as a sum
central_inversion_sign_slip(self, center) == __add__(__rmul__(center, PyInt(2)), self)

central_inversion_through(self, center) == __sub__(__rmul__(center, PyInt(2)), self)

\* the point left where it is, not scaled onto the circle
project_unscaled(self, center, radius) ==
    IF Raised(NumDiv(radius, __abs__(__sub__(self, center))))
    THEN [type |-> "ZeroDivisionError"]
    ELSE __add__(center, __sub__(self, center))

project_to_circle_around(self, center, radius) ==
    LET Scaled(alpha) ==
            IF Raised(alpha) THEN [type |-> "ZeroDivisionError"]
            ELSE __add__(center, __rmul__(__sub__(self, center), alpha))
    IN  Scaled(NumDiv(radius, __abs__(__sub__(self, center))))

\* the minus left out
rotation_angle_unnegated(self, other) ==
    LET Angle(d) ==
            IF NumSgn(d.x) # 0 THEN atan(ExactDiv(d.y, d.x)) ELSE copysign_half_pi(d.y)
    IN  Angle(__sub__(other, self))

rotation_angle(self, other) ==
    LET Angle(d) ==
            AngleNeg(IF NumSgn(d.x) # 0 THEN atan(ExactDiv(d.y, d.x))
                     ELSE copysign_half_pi(d.y))
    IN  Angle(__sub__(other, self))

circle_bounding_box_from_diameter(self, other) ==
    LET Box(center, radius) ==
            <<__sub__(center, Point(self.type, radius, radius)),
              __add__(center, Point(self.type, radius, radius))>>
        Around(center) == Box(center, __abs__(__sub__(center, self)))
    IN  Around(middle_between(self, other))

\* both methods: ImagePoint's returns self
to_image_coordinates(self, canvas_width, canvas_height, image_width, image_height) ==
    IF self.type = "ImagePoint" THEN self
    ELSE LET Mapped(iw, ih, ix, iy) ==
                 IF iw.v = 0 \/ ih.v = 0 THEN [type |-> "ZeroDivisionError"]
                 ELSE ImagePoint(NumMul(NumDiv(NumSub(self.x, ix), iw), image_width),
                                 NumMul(NumDiv(NumSub(self.y, iy), ih), image_height))
             Placed(size) ==
                 Mapped(size[1], size[2],
                        PyInt((canvas_width.v - size[1].v) \div 2),
                        PyInt((canvas_height.v - size[2].v) \div 2))
         IN  Placed(rescaled_image_size(canvas_width, canvas_height,
                                        image_width, image_height))

(***************************************************************************)
(* class Rectangle                                                         *)
(***************************************************************************)
Rectangle(left_upper, right_upper, right_lower, left_lower) ==
    IF ~(assert_same_type(left_upper, right_upper)
         /\ assert_same_type(left_upper, right_lower)
         /\ assert_same_type(left_upper, left_lower)) THEN AssertionError
    ELSE [type |-> "Rectangle", left_upper |-> left_upper, right_upper |-> right_upper,
          right_lower |-> right_lower, left_lower |-> left_lower]

\* __iter__
Corners(self) == <<self.left_upper, self.right_upper, self.right_lower, self.left_lower>>

RECURSIVE NumMin(_)
\* min(xs): the first of the smallest
NumMin(xs) ==
    IF Len(xs) = 1 THEN xs[1]
    ELSE IF NumCmp(xs[Len(xs)], NumMin(SubSeq(xs, 1, Len(xs) - 1))) < 0 THEN xs[Len(xs)]
    ELSE NumMin(SubSeq(xs, 1, Len(xs) - 1))

RECURSIVE NumMax(_)
\* max(xs): the first of the largest
NumMax(xs) ==
    IF Len(xs) = 1 THEN xs[1]
    ELSE IF NumCmp(xs[Len(xs)], NumMax(SubSeq(xs, 1, Len(xs) - 1))) > 0 THEN xs[Len(xs)]
    ELSE NumMax(SubSeq(xs, 1, Len(xs) - 1))

containing_rectangle(self) ==
    LET xs == [i \in 1 .. 4 |-> Corners(self)[i].x]
        ys == [i \in 1 .. 4 |-> Corners(self)[i].y]
        PointType == self.left_upper.type
    IN  Rectangle(Point(PointType, NumMin(xs), NumMin(ys)),
                  Point(PointType, NumMax(xs), NumMin(ys)),
                  Point(PointType, NumMax(xs), NumMax(ys)),
                  Point(PointType, NumMin(xs), NumMax(ys)))

Rectangle_rotation_angle(self) == rotation_angle(self.left_upper, self.right_upper)

to_image_rectangle(self, canvas_width, canvas_height, image_width, image_height) ==
    LET Built(points) ==
            IF Raised(points[1]) THEN points[1]
            ELSE Rectangle(points[1], points[2], points[3], points[4])
    IN  Built([i \in 1 .. 4 |->
                 to_image_coordinates(Corners(self)[i], canvas_width, canvas_height,
                                      image_width, image_height)])

(***************************************************************************)
(* def crop_rectangle.  An image is its size; what the image library       *)
(* returns for image.crop(box).rotate(angle, expand=True).crop(trim) is    *)
(* the record of the box cut from the image and of the angle it was        *)
(* turned by: the library takes any box and any angle and returns an       *)
(* image.  The function itself raises only where to_image_rectangle does.  *)
(***************************************************************************)
Image(width, height) == [type |-> "Image", width |-> width, height |-> height]

crop_rectangle(rectangle, image, canvas_width, canvas_height) ==
    LET Cropped(image_containing_rectangle) ==
            IF Raised(image_containing_rectangle) THEN image_containing_rectangle
            ELSE [type |-> "Image",
                  box |-> <<image_containing_rectangle.left_upper.x,
                            image_containing_rectangle.left_upper.y,
                            image_containing_rectangle.right_lower.x,
                            image_containing_rectangle.right_lower.y>>,
                  rotated |-> AngleNeg(Rectangle_rotation_angle(rectangle))]
    IN  Cropped(to_image_rectangle(containing_rectangle(rectangle), canvas_width,
                                   canvas_height, image.width, image.height))

(***************************************************************************)
(* Bounds of the model                                                     *)
(***************************************************************************)
\* pointer events arrive at the pixels (0 .. MaxX, Rows)
MaxX == 2

Rows == {0, 1}

\* main(): app.geometry("400x600")
InitialWidth == 400

InitialHeight == 600

Events == {[x |-> PyInt(i), y |-> PyInt(j)] : i \in 0 .. MaxX, j \in Rows}

\* the window is turned from upright to flat
ResizeEvents == {[width |-> PyInt(InitialHeight), height |-> PyInt(InitialWidth)]}

(***************************************************************************)
(* class CropCanvas.  circle, rectangle and projected hold None or the id  *)
(* of a canvas item, here the item's kind; items are the items on the      *)
(* canvas, each with its coordinates: the overlays and the images drawn.   *)
(* notified is what the listeners of <<image_cropped>> were handed by the  *)
(* last handler, and last is the last event handled, with the exception    *)
(* its handler ended in; for a press, also whether a preview rectangle     *)
(* (had) and an opposite corner (dragged) were there when it arrived.      *)
(* call and ret are the call and the result of a function called on its    *)
(* own.                                                                    *)
(***************************************************************************)
VARIABLES lu, rl, selected_rectangle, circle, rectangle, projected, items,
          width, height, notified, last, call, ret

canvas == <<lu, rl, selected_rectangle, circle, rectangle, projected, items,
            width, height, notified, last>>

vars == <<canvas, call, ret>>

Item(kind) == [type |-> "item", kind |-> kind]

\* self.image, the picture the canvas was made for
image == Image(PyInt(200), PyInt(300))

\* CropCanvas.__init__, and the first layout of the window
InitCanvas ==
    /\ circle = None
    /\ rectangle = None
    /\ projected = None
    /\ lu = None
    /\ rl = None
    /\ selected_rectangle = None
    /\ items = {}
    /\ width = PyInt(InitialWidth)
    /\ height = PyInt(InitialHeight)
    /\ notified = <<>>
    /\ last = [event |-> "none"]

Init == InitCanvas /\ call = None /\ ret = None

\* self.delete(handle), under "if handle:"
delete(its, handle) ==
    IF handle = None THEN its ELSE {i \in its : i.kind # handle.kind}

\* the items left by _delete_circle_and_rectangle, which also sets
\* selected_rectangle to None
_delete_circle_and_rectangle(its) ==
    delete(delete(delete(its, circle), rectangle), projected)

\* CropGalleryFrame.on_image_cropped, bound to <<image_cropped>>: what the listener
\* reads from event.widget when the event is generated
on_image_cropped(widget_selected_rectangle) ==
    IF widget_selected_rectangle = None THEN AssertionError
    ELSE [type |-> "cropped", rectangle |-> widget_selected_rectangle]

\* the notifications on_click generates (when="now": handled before it returns)
event_generate(sel) == IF sel # None THEN <<on_image_cropped(sel)>> ELSE <<>>

\* the selection reset before the listeners are notified
on_click_reset_first(event) ==
    /\ selected_rectangle' = None
    /\ notified' = event_generate(selected_rectangle')
    /\ items' = _delete_circle_and_rectangle(items)
    /\ rl' = None
    /\ lu' = CanvasPoint(event.x, event.y)
    /\ last' = [event |-> "press", x |-> event.x, y |-> event.y, raised |-> None,
                had |-> selected_rectangle # None, dragged |-> rl # None]
    /\ UNCHANGED <<circle, rectangle, projected, width, height, call, ret>>

\* the opposite corner kept
on_click_keeping_rl(event) ==
    /\ notified' = event_generate(selected_rectangle)
    /\ items' = _delete_circle_and_rectangle(items)
    /\ selected_rectangle' = None
    /\ rl' = rl
    /\ lu' = CanvasPoint(event.x, event.y)
    /\ last' = [event |-> "press", x |-> event.x, y |-> event.y, raised |-> None,
                had |-> selected_rectangle # None, dragged |-> rl # None]
    /\ UNCHANGED <<circle, rectangle, projected, width, height, call, ret>>

on_click(event) ==
    /\ notified' = event_generate(selected_rectangle)
    /\ items' = _delete_circle_and_rectangle(items)
    /\ selected_rectangle' = None
    /\ rl' = None
    /\ lu' = CanvasPoint(event.x, event.y)
    /\ last' = [event |-> "press", x |-> event.x, y |-> event.y, raised |-> None,
                had |-> selected_rectangle # None, dragged |-> rl # None]
    /\ UNCHANGED <<circle, rectangle, projected, width, height, call, ret>>

\* the preview of the earlier drag kept
on_drag_keeping_preview(event) ==
    /\ selected_rectangle' = selected_rectangle
    /\ rl' = CanvasPoint(event.x, event.y)
    /\ IF lu = None
       THEN /\ items' = _delete_circle_and_rectangle(items)
            /\ circle' = circle
            /\ last' = [event |-> "drag", raised |-> AttributeError]
       ELSE /\ items' = _delete_circle_and_rectangle(items)
                         \cup {[kind |-> "circle",
                                at |-> circle_bounding_box_from_diameter(lu, rl')]}
            /\ circle' = Item("circle")
            /\ last' = [event |-> "drag", raised |-> None]
    /\ notified' = <<>>
    /\ UNCHANGED <<lu, rectangle, projected, width, height, call, ret>>

on_drag(event) ==
    /\ selected_rectangle' = None
    /\ rl' = CanvasPoint(event.x, event.y)
    /\ IF lu = None
       THEN \* self.lu.circle_bounding_box_from_diameter: None has no such attribute
            /\ items' = _delete_circle_and_rectangle(items)
            /\ circle' = circle
            /\ last' = [event |-> "drag", raised |-> AttributeError]
       ELSE /\ items' = _delete_circle_and_rectangle(items)
                         \cup {[kind |-> "circle",
                                at |-> circle_bounding_box_from_diameter(lu, rl')]}
            /\ circle' = Item("circle")
            /\ last' = [event |-> "drag", raised |-> None]
    /\ notified' = <<>>
    /\ UNCHANGED <<lu, rectangle, projected, width, height, call, ret>>

\* lines 292-308: the preview rectangle for a move at event, or the exception
preview_rectangle(anchor, opposite, event) ==
    LET Built(center, corner1) ==
            IF Raised(corner1) THEN corner1
            ELSE Rectangle(anchor, corner1, opposite,
                           central_inversion_through(corner1, center))
        Projected(center, r) ==
            Built(center,
                  project_to_circle_around(CanvasPoint(event.x, event.y), center, r))
        Around(center) == Projected(center, __abs__(__sub__(center, anchor)))
    IN  Around(middle_between(anchor, opposite))

\* the yellow dot around corner1
projected_oval(corner1) ==
    <<NumSub(corner1.x, PyInt(5)), NumSub(corner1.y, PyInt(5)),
      NumAdd(corner1.x, PyInt(5)), NumAdd(corner1.y, PyInt(5))>>

on_mousemove(event) ==
    LET cleared == delete(delete(items, rectangle), projected)
        Drawn(built) ==
            IF built = None
            THEN /\ items' = cleared
                 /\ last' = [event |-> "move", raised |-> None]
                 /\ UNCHANGED <<selected_rectangle, rectangle, projected>>
            ELSE IF Raised(built)
            THEN /\ items' = cleared
                 /\ last' = [event |-> "move", raised |-> built]
                 /\ UNCHANGED <<selected_rectangle, rectangle, projected>>
            ELSE /\ selected_rectangle' = built
                 /\ projected' = Item("projected")
                 /\ rectangle' = Item("rectangle")
                 /\ items' = cleared
                              \cup {[kind |-> "projected",
                                     at |-> projected_oval(built.right_upper)],
                                    [kind |-> "rectangle", at |-> Corners(built)]}
                 /\ last' = [event |-> "move", raised |-> None]
    IN  /\ Drawn(IF lu # None /\ rl # None THEN preview_rectangle(lu, rl, event)
                 ELSE None)
        /\ notified' = <<>>
        /\ UNCHANGED <<lu, rl, circle, width, height, call, ret>>

\* the items after redraw_image on a widget of size w, h: one more image item, the
\* image fitted into the widget and centred; the items before it stay
redraw_image(its, w, h) ==
    LET Created(size) ==
            [kind |-> "image", size |-> size,
             at |-> <<PyInt((w.v - size[1].v) \div 2), PyInt((h.v - size[2].v) \div 2)>>]
    IN  its \cup {Created(rescaled_image_size(w, h, image.width, image.height))}

\* the selection cleared as a press clears it
on_resize_clearing(event) ==
    /\ width' = event.width
    /\ height' = event.height
    /\ items' = redraw_image(_delete_circle_and_rectangle(items), width', height')
    /\ selected_rectangle' = None
    /\ rl' = None
    /\ notified' = <<>>
    /\ last' = [event |-> "resize", raised |-> None]
    /\ UNCHANGED <<lu, circle, rectangle, projected, call, ret>>

on_resize(event) ==
    /\ width' = event.width
    /\ height' = event.height
    /\ items' = redraw_image(items, width', height')
    /\ notified' = <<>>
    /\ last' = [event |-> "resize", raised |-> None]
    /\ UNCHANGED <<lu, rl, selected_rectangle, circle, rectangle, projected, call, ret>>

Next ==
    \/ \E event \in Events : on_click(event)
    \/ \E event \in Events : on_drag(event)
    \/ \E event \in Events : on_mousemove(event)
    \/ \E event \in ResizeEvents : on_resize(event)

Spec == Init /\ [][Next]_vars
(***************************************************************************)
(* The methods of Point called on their own.  A call is chosen at the      *)
(* start; the action of the method called produces the result.             *)
(***************************************************************************)
\* coordinates 0 .. MaxCoord and the floats 1/3 .. MaxCoord/3
MaxCoord == 1

\* rotation_angle is called on the points (Step * i, Step * j), i, j in 0 .. MaxStep
MaxStep == 2

Step == 100

Coords ==
    {PyInt(i) : i \in 0 .. MaxCoord} \cup {NumDiv(PyInt(i), PyInt(3)) : i \in 1 .. MaxCoord}

SamplePoints == {Point(t, x, y) : t \in {"CanvasPoint", "ImagePoint"}, x \in Coords, y \in Coords}

AnglePoints == {CanvasPoint(PyInt(Step * i), PyInt(Step * j)) : i \in 0 .. MaxStep, j \in 0 .. MaxStep}

PointCalls ==
    {[fn |-> f, self |-> a, other |-> b] :
        f \in {"__add__", "__sub__", "central_inversion_through"},
        a \in SamplePoints, b \in SamplePoints}
    \cup {[fn |-> "rotation_angle", self |-> a, other |-> b] :
            a \in AnglePoints, b \in AnglePoints}

InitPoint == InitCanvas /\ call \in PointCalls /\ ret = None

Called(fn) == call.fn = fn /\ ret = None

do___add__ ==
    /\ Called("__add__")
    /\ ret' = __add__(call.self, call.other)
    /\ UNCHANGED <<canvas, call>>

do___sub__ ==
    /\ Called("__sub__")
    /\ ret' = __sub__(call.self, call.other)
    /\ UNCHANGED <<canvas, call>>

\* p.central_inversion_through(c), and the same again on its result
Twice(once, center) ==
    [once |-> once,
     twice |-> IF Raised(once) THEN once ELSE central_inversion_through(once, center)]

do_central_inversion_through ==
    /\ Called("central_inversion_through")
    /\ ret' = Twice(central_inversion_through(call.self, call.other), call.other)
    /\ UNCHANGED <<canvas, call>>

do_rotation_angle ==
    /\ Called("rotation_angle")
    /\ ret' = rotation_angle(call.self, call.other)
    /\ UNCHANGED <<canvas, call>>

NextPoint ==
    \/ do___add__
    \/ do___sub__
    \/ do_central_inversion_through
    \/ do_rotation_angle

SpecPoint == InitPoint /\ [][NextPoint]_vars

(***************************************************************************)
(* rescaled_image_size called on its own, on the sizes 1 .. MaxSize.       *)
(***************************************************************************)
MaxSize == 9

Sizes == {PyInt(i) : i \in 1 .. MaxSize}

InitSize ==
    /\ InitCanvas
    /\ call \in {[fn |-> "rescaled_image_size", canvas_width |-> cw, canvas_height |-> ch,
                  image_width |-> iw, image_height |-> ih] :
                    cw \in Sizes, ch \in Sizes, iw \in Sizes, ih \in Sizes}
    /\ ret = None

do_rescaled_image_size ==
    /\ Called("rescaled_image_size")
    /\ ret' = rescaled_image_size(call.canvas_width, call.canvas_height,
                                  call.image_width, call.image_height)
    /\ UNCHANGED <<canvas, call>>

NextSize == do_rescaled_image_size

SpecSize == InitSize /\ [][NextSize]_vars

(***************************************************************************)
(* crop_rectangle called, as crop_selected_rectangle calls it, on a        *)
(* rectangle that on_mousemove builds, for a canvas showing an image.      *)
(***************************************************************************)
Shown ==
    {[image |-> image,
      canvas_width |-> PyInt(InitialWidth), canvas_height |-> PyInt(InitialHeight)],
     [image |-> Image(PyInt(1), PyInt(10)),
      canvas_width |-> PyInt(1), canvas_height |-> PyInt(3)]}

Previews ==
    {r \in {preview_rectangle(CanvasPoint(a.x, a.y), CanvasPoint(b.x, b.y), m) :
                a \in Events, b \in Events, m \in Events} : ~Raised(r)}

InitCrop ==
    /\ InitCanvas
    /\ call \in {[fn |-> "crop_rectangle", rectangle |-> r, image |-> v.image,
                  canvas_width |-> v.canvas_width, canvas_height |-> v.canvas_height] :
                    r \in Previews, v \in Shown}
    /\ ret = None

do_crop_rectangle ==
    /\ Called("crop_rectangle")
    /\ ret' = crop_rectangle(call.rectangle, call.image, call.canvas_width,
                             call.canvas_height)
    /\ UNCHANGED <<canvas, call>>

NextCrop == do_crop_rectangle

SpecCrop == InitCrop /\ [][NextCrop]_vars
(***************************************************************************)
(* The claims                                                              *)
(***************************************************************************)
\* (a - b) . (c - b), the scalar product of the two edges that meet at b
Dot(a, b, c) ==
    NumAdd(NumMul(NumSub(a.x, b.x), NumSub(c.x, b.x)),
           NumMul(NumSub(a.y, b.y), NumSub(c.y, b.y)))

RightAngleAt(a, b, c) == NumSgn(Dot(a, b, c)) = 0

RightAngles(r) ==
    /\ RightAngleAt(r.left_lower, r.left_upper, r.right_upper)
    /\ RightAngleAt(r.left_upper, r.right_upper, r.right_lower)
    /\ RightAngleAt(r.right_upper, r.right_lower, r.left_lower)
    /\ RightAngleAt(r.right_lower, r.left_lower, r.left_upper)

\* C1: for an anchor lu and an opposite corner rl # lu, the preview rectangle
\* that a move builds is (lu, corner1, rl, corner2) and the two edges that
\* meet at each of its four corners are perpendicular, wherever the move was.
C1_RightAngles ==
    (selected_rectangle # None /\ ~__eq__(lu, rl)) =>
        /\ selected_rectangle.left_upper = lu
        /\ selected_rectangle.right_lower = rl
        /\ RightAngles(selected_rectangle)

\* C1, its case: a move has built a preview whose corner1 has an irrational
\* coordinate, a rectangle turned against the axes
C1_Witness ==
    /\ last.event = "move"
    /\ selected_rectangle # None
    /\ ~__eq__(lu, rl)
    /\ selected_rectangle.right_upper.x.t # 1

\* C2: a press notifies the listeners if and only if a preview rectangle
\* exists when it arrives, once, with that rectangle as it was before the
\* press; the listener reads it before the selection is reset and the anchor
\* is taken from the press; no other event notifies.
C2_EmitOnPress ==
    [][/\ last'.event = "press" =>
            /\ notified' = IF selected_rectangle # None
                           THEN <<[type |-> "cropped", rectangle |-> selected_rectangle]>>
                           ELSE <<>>
            /\ selected_rectangle' = None
            /\ lu' = CanvasPoint(last'.x, last'.y)
       /\ last'.event # "press" => notified' = <<>>]_vars

\* C2, its case: a press arrived with a preview and notified once
C2_Witness ==
    /\ last.event = "press"
    /\ last.had
    /\ Len(notified) = 1
    /\ selected_rectangle = None

\* the circle, the polygon and the dot among the items
Overlays(its) == {i \in its : i.kind # "image"}

\* C3: after a press at p, in any state, lu is p, rl is absent and no
\* rectangle or overlay remains; a press on a selection that has no preview
\* notifies nobody; a move while rl is absent builds no preview.
C3_PressRestarts ==
    [][/\ last'.event = "press" =>
            /\ lu' = CanvasPoint(last'.x, last'.y)
            /\ rl' = None
            /\ selected_rectangle' = None
            /\ Overlays(items') = {}
       /\ (last'.event = "press" /\ selected_rectangle = None) => notified' = <<>>
       /\ (last'.event = "move" /\ rl = None) =>
            (selected_rectangle' = None /\ Overlays(items') = {})]_vars

\* C3, its case: a press arrived on a selection with a drag, whose circle had
\* been drawn, and no preview, and discarded it without a notification
C3_Witness ==
    /\ last.event = "press"
    /\ last.dragged
    /\ ~last.had
    /\ circle # None
    /\ notified = <<>>
    /\ rl = None
    /\ selected_rectangle = None

\* C4: when the drag position equals the anchor (lu == rl), a move is
\* ignored: it builds no preview rectangle and raises no error.
C4_MovesIgnored ==
    (last.event = "move" /\ lu # None /\ rl # None /\ __eq__(lu, rl)) =>
        (selected_rectangle = None /\ last.raised = None)

\* two neighbouring corners coincide
ZeroArea(r) ==
    \/ __eq__(r.left_upper, r.right_upper)
    \/ __eq__(r.right_upper, r.right_lower)

\* C5: a rectangle of zero area is never handed to the listeners: a press on
\* such a preview notifies nobody.
C5_NoZeroAreaEmitted ==
    \A i \in 1 .. Len(notified) : ~ZeroArea(notified[i].rectangle)

\* C6: crop_rectangle fails whenever the box it cuts from the image has a
\* width or height of zero or less; it returns no image for such a box.
C6_FailsOnEmptyRegion ==
    (call.fn = "crop_rectangle" /\ ret # None /\ ~Raised(ret)) =>
        /\ NumCmp(ret.box[3], ret.box[1]) > 0
        /\ NumCmp(ret.box[4], ret.box[2]) > 0

\* C7: the sum or difference of two points of different spaces is an
\* AssertionError, in either order; that of two points of one space is a
\* point of that space.
C7_SameSpace ==
    (call.fn \in {"__add__", "__sub__"} /\ ret # None) =>
        IF call.self.type # call.other.type THEN ret = AssertionError
        ELSE DOMAIN ret = {"type", "x", "y"} /\ ret.type = call.self.type

\* C7, its case: an ImagePoint was subtracted from a CanvasPoint
C7_Witness ==
    /\ call.fn = "__sub__"
    /\ call.self.type = "CanvasPoint"
    /\ call.other.type = "ImagePoint"
    /\ ret = AssertionError

\* the angle whose tangent is n / d, in (-pi/2, pi/2)
AtanOf(n, d) ==
    [k |-> "angle", form |-> "atan", of |-> RealOfRat(Rat(n, d)), turns |-> 0]

\* sign * pi/2
HalfPi(sign) == [k |-> "angle", form |-> "pi/2", of |-> sign, turns |-> 0]

\* atan2(dy, dx) for integers dx, dy that are not both 0
Atan2(dy, dx) ==
    IF dx > 0 THEN AtanOf(dy, dx)
    ELSE IF dx < 0 THEN [AtanOf(dy, dx) EXCEPT !.turns = IF dy >= 0 THEN 1 ELSE -1]
    ELSE HalfPi(IF dy < 0 THEN -1 ELSE 1)

C8_dx == call.other.x.v - call.self.x.v

C8_dy == call.other.y.v - call.self.y.v

\* 0, -45, +45, -90 and +90 degrees from (100, 100)
C8_Examples ==
    \A e \in {<<200, 100, AtanOf(0, 1)>>, <<200, 200, AtanOf(-1, 1)>>,
              <<200, 0, AtanOf(1, 1)>>, <<100, 200, HalfPi(-1)>>, <<100, 0, HalfPi(1)>>} :
        (/\ call.self = CanvasPoint(PyInt(100), PyInt(100))
         /\ call.other = CanvasPoint(PyInt(e[1]), PyInt(e[2]))) => ret = e[3]

\* C8 as claimed: for distinct points rotation_angle is -atan2(dy, dx) in every
\* quadrant, also for dx < 0, and -pi/2 or +pi/2 against the sign of dy for
\* dx = 0; the five examples.
C8_MinusAtan2 ==
    (call.fn = "rotation_angle" /\ ret # None /\ ~__eq__(call.self, call.other)) =>
        (ret = AngleNeg(Atan2(C8_dy, C8_dx)) /\ C8_Examples)

\* C8 as amended: for distinct points rotation_angle is -atan(dy / dx) for
\* dx # 0, which is -atan2(dy, dx) for dx > 0 and -atan2(-dy, -dx), the angle
\* of the opposite vector, for dx < 0; it is -pi/2 or +pi/2 against the sign
\* of dy for dx = 0; the five examples.
C8_MinusAtan ==
    (call.fn = "rotation_angle" /\ ret # None /\ ~__eq__(call.self, call.other)) =>
        /\ C8_dx >= 0 => ret = AngleNeg(Atan2(C8_dy, C8_dx))
        /\ C8_dx < 0 => ret = AngleNeg(Atan2(-C8_dy, -C8_dx))
        /\ C8_Examples

\* C8, its case: the angle was taken of a vector that points left and up or down
C8_Witness ==
    /\ call.fn = "rotation_angle"
    /\ ret # None
    /\ C8_dx < 0
    /\ C8_dy # 0

\* C9: for positive sizes rescaled_image_size returns (iw, ih) within the
\* canvas with one of them equal to the canvas's: (canvasW,
\* trunc(canvasW * imageH / imageW)) when imageW / imageH >= canvasW / canvasH,
\* and (trunc(canvasH * imageW / imageH), canvasH) otherwise.
C9_TruncatedFit ==
    (call.fn = "rescaled_image_size" /\ ret # None) =>
        LET cw == call.canvas_width.v
            ch == call.canvas_height.v
            w == call.image_width.v
            h == call.image_height.v
        IN  /\ ret[1].v <= cw
            /\ ret[2].v <= ch
            /\ ret[1].v = cw \/ ret[2].v = ch
            /\ ret = IF w * ch >= cw * h
                     THEN <<PyInt(cw), PyInt((cw * h) \div w)>>
                     ELSE <<PyInt((ch * w) \div h), PyInt(ch)>>

Origin(p) == NumSgn(p.x) = 0 /\ NumSgn(p.y) = 0

IntPoint(p) == p.x.k = "int" /\ p.y.k = "int"

\* C10 as claimed: for all points p and c of one space, inverting p through c
\* twice gives p again, and inverting p through the origin gives -p.
C10_Involution ==
    (/\ call.fn = "central_inversion_through"
     /\ ret # None
     /\ call.self.type = call.other.type) =>
        /\ __eq__(ret.twice, call.self)
        /\ Origin(call.other) => __eq__(ret.once, __neg__(call.self))

\* C10 as amended: for points p and c of one space with integer coordinates,
\* inverting p through c twice gives p again; for every p, inverting p through
\* the origin gives -p.
C10_IntegerInvolution ==
    (/\ call.fn = "central_inversion_through"
     /\ ret # None
     /\ call.self.type = call.other.type) =>
        /\ (IntPoint(call.self) /\ IntPoint(call.other)) => __eq__(ret.twice, call.self)
        /\ Origin(call.other) => __eq__(ret.once, __neg__(call.self))

\* C10, its case: a point with integer coordinates was inverted twice through
\* another point that is not the origin
C10_Witness ==
    /\ call.fn = "central_inversion_through"
    /\ ret # None
    /\ call.self.type = call.other.type
    /\ IntPoint(call.self)
    /\ IntPoint(call.other)
    /\ ~Origin(call.other)
    /\ ~__eq__(ret.once, call.self)

\* C11: a resize, in any state, leaves lu, rl and the preview rectangle (present
\* or not, and its four corners) as they were, and notifies nobody.
C11_ResizeKeepsSelection ==
    [][last'.event = "resize" =>
            /\ lu' = lu
            /\ rl' = rl
            /\ selected_rectangle' = selected_rectangle
            /\ Overlays(items') = Overlays(items)
            /\ notified' = <<>>]_vars

\* C11, its case: a resize arrived while a preview rectangle was there, changed
\* the size of the widget and left the rectangle
C11_Witness ==
    /\ last.event = "resize"
    /\ selected_rectangle # None
    /\ width # PyInt(InitialWidth)
    /\ \E i \in items : i.kind = "image"

\* a and b are each other's reflection through the middle of p and q: a + b = p + q
ReflectedThroughMiddle(a, b, p, q) ==
    /\ NumEq(NumAdd(a.x, b.x), NumAdd(p.x, q.x))
    /\ NumEq(NumAdd(a.y, b.y), NumAdd(p.y, q.y))

\* r was built from the anchor p and the opposite corner q
BuiltFrom(r, p, q) ==
    /\ p # None
    /\ q # None
    /\ r.left_upper = p
    /\ r.right_lower = q
    /\ ReflectedThroughMiddle(r.left_lower, r.right_upper, p, q)

\* C12: whenever a preview rectangle exists, lu and rl are set, its left_upper
\* is lu, its right_lower is rl and its left_lower is its right_upper reflected
\* through the middle of lu and rl; the rectangle a press hands to the listeners
\* is built from the lu and rl of the moment the press arrives.
C12_PreviewOfCurrentCorners ==
    [][/\ selected_rectangle' # None => BuiltFrom(selected_rectangle', lu', rl')
       /\ (last'.event = "press" /\ notified' # <<>>) =>
            BuiltFrom(notified'[1].rectangle, lu, rl)]_vars

\* C12, its case: after a drag drew its circle, a move built a preview turned
\* against the axes, whose diagonal is the current lu and rl
C12_Witness ==
    /\ last.event = "move"
    /\ circle # None
    /\ selected_rectangle # None
    /\ ~__eq__(lu, rl)
    /\ selected_rectangle.left_upper = lu
    /\ selected_rectangle.right_lower = rl
    /\ selected_rectangle.right_upper.x.t # 1
====
